---- MODULE Spec2Model ----
(***************************************************************************)
(* Model of tetris_pack (Penrose/spacers.py): the greedy "drop" packing of *)
(* polygonal pieces on a sheet of a given width.                           *)
(*                                                                         *)
(* Geometry is exact on the integer lattice.  A geometry is a finite set   *)
(* of closed unit cells; the cell <<a, b>> is the square                   *)
(* [a, a+1] x [b, b+1].  Pieces contain their pivot (0,0) ("geoms must     *)
(* have their branches meeting at (0,0)"), rotations are the multiples of  *)
(* 90 degrees, and width, stepx, stepy are integers, so every coordinate   *)
(* the code computes is an integer and no rounding is involved.            *)
(* shapely's intersects() is true for closed sets that merely touch, which *)
(* is what Touches and Intersects below compute.                           *)
(***************************************************************************)
EXTENDS Integers, Sequences, FiniteSets, TLC

VARIABLES
    geoms,              \* argument: the pieces, in the order they are placed
    width,              \* argument
    stepx,              \* argument
    stepy,              \* argument
    nb_orientations,    \* argument
    result,             \* placed geometries, in commit order (the exact union)
    simplified_result,  \* [cells, shadows]: what falling pieces are tested against
    starting_yoffs,     \* "water level" of each column 0 .. nb_stepx-1
    nb_placed,
    global_maxy,
    possible_positions, \* candidates of the piece being placed
    best_position,      \* last committed candidate
    i,                  \* orientation loop variable
    x,                  \* column loop variable
    yoff,               \* probe height
    geom_yshifted,      \* probed geometry
    raised,             \* exception that left tetris_pack, "none" if none
    pc                  \* position in tetris_pack

vars == <<geoms, width, stepx, stepy, nb_orientations, result,
          simplified_result, starting_yoffs, nb_placed, global_maxy,
          possible_positions, best_position, i, x, yoff, geom_yshifted,
          raised, pc>>

inputs == <<geoms, width, stepx, stepy, nb_orientations>>

----------------------------------------------------------------------------
(* Bounds of the model *)

MaxPieces == 3

(* Pieces offered to the packer, pivot at (0,0).                            *)
Square == {<<-1, -1>>, <<0, -1>>, <<-1, 0>>, <<0, 0>>}
Bar    == {<<0, 0>>, <<1, 0>>}
Gamma  == {<<0, 0>>, <<1, 0>>, <<2, 0>>, <<2, -1>>, <<2, -2>>, <<2, -3>>, <<2, -4>>}

Shapes == {Square, Bar, Gamma}

Widths == {3, 5, 10}
StepsX == {1, 2}
StepsY == {1, 2}
Orientations == {1, 4}

RECURSIVE SeqsUpTo(_, _)
SeqsUpTo(S, n) ==
    IF n = 0 THEN {<<>>}
    ELSE LET shorter == SeqsUpTo(S, n - 1)
         IN  shorter \cup {Append(s, e) : s \in {t \in shorter : Len(t) = n - 1}, e \in S}

----------------------------------------------------------------------------
(* Arithmetic and geometry helpers *)

SetMin(S) == CHOOSE m \in S : \A e \in S : m <= e
SetMax(S) == CHOOSE m \in S : \A e \in S : m >= e
Maximum(a, b) == IF a >= b THEN a ELSE b
Abs(a) == IF a >= 0 THEN a ELSE -a

(* math.floor(a/b) and math.ceil(a/b) for b > 0 *)
FloorDiv(a, b) == a \div b
CeilDiv(a, b)  == -((-a) \div b)

(* geom.bounds *)
Bounds(geom) ==
    [minx |-> SetMin({c[1] : c \in geom}),
     miny |-> SetMin({c[2] : c \in geom}),
     maxx |-> SetMax({c[1] : c \in geom}) + 1,
     maxy |-> SetMax({c[2] : c \in geom}) + 1]

(* shapely.affinity.translate *)
Translate(geom, xoff, yo) == {<<c[1] + xoff, c[2] + yo>> : c \in geom}

(* shapely.affinity.rotate about (0,0), counter-clockwise, angle a multiple *)
(* of 90 degrees: the point (px, py) goes to (-py, px), so the cell <<a,b>> *)
(* goes to <<-b-1, a>>.                                                     *)
QuarterTurn(geom) == {<<-c[2] - 1, c[1]>> : c \in geom}

RECURSIVE Rotate(_, _)
Rotate(geom, angle) ==
    IF angle = 0 THEN geom ELSE Rotate(QuarterTurn(geom), angle - 90)

(* two closed cells have a common point *)
Touches(c, d) == Abs(c[1] - d[1]) <= 1 /\ Abs(c[2] - d[2]) <= 1

(* The rectangle added below a placed piece:                                *)
(* [minx, maxx] x [-1e-6, miny - 1e-6].  A cell [a,a+1] x [b,b+1] with      *)
(* b >= 0 meets it iff the x ranges meet and b <= miny - 1e-6, i.e. b < miny *)
(* (for miny = 0 the rectangle is flat at y = -1e-6 and meets no piece).    *)
InShadow(c, s) == c[1] <= s.maxx /\ c[1] + 1 >= s.minx /\ c[2] < s.miny

(* simplified_result_prepared.intersects(geom) *)
Intersects(simplified, geom) ==
    \E c \in geom :
        \/ \E d \in simplified.cells : Touches(c, d)
        \/ \E s \in simplified.shadows : InShadow(c, s)

----------------------------------------------------------------------------
(* Values of the loop-local names of tetris_pack in the current state *)

nb_stepx == FloorDiv(width, stepx)

geom == geoms[nb_placed + 1]

(* rotate(geom, 360/nb_orientations*i): for the orientation counts used,   *)
(* 1 and 4, the angle is a multiple of 90 under either division of Python  *)
geom_rotated == Rotate(geom, (360 \div nb_orientations) * i)

(* mutant: the lower end of the column range rounded down *)
ColumnLoFloor(g) == FloorDiv(-Bounds(g).minx, stepx)

ColumnLo(g) == CeilDiv(-Bounds(g).minx, stepx)
ColumnHi(g) == FloorDiv(width - Bounds(g).maxx, stepx)

(* mutant: the piece is not lifted to have its bottom edge at 0 *)
geom_xshifted_unlifted == Translate(geom_rotated, x * stepx, 0)

geom_xshifted == Translate(geom_rotated, x * stepx, -Bounds(geom_rotated).miny)

(* mutant: the probe starts from the ground *)
StartYoffGround(levels, col) == 0

(* yoff = starting_yoffs[x]  ("no need to check lower than that") *)
StartYoff(levels, col) == levels[col]

(* mutant: the probe height does not advance *)
NextYoffStuck(y) == y

(* yoff += stepy *)
NextYoff(y) == y + stepy

(* mutant: a later candidate of equal key replaces the held one *)
KeyLessOrEqual(c, d) == c.maxy < d.maxy \/ (c.maxy = d.maxy /\ c.x <= d.x)

(* key = lambda d: (d['maxy'], d['x']) *)
KeyLess(c, d) == c.maxy < d.maxy \/ (c.maxy = d.maxy /\ c.x < d.x)

(* min(possible_positions, key=...): Python's min keeps the element it     *)
(* holds unless a later one has a strictly smaller key.  MinUpTo is the     *)
(* element held after the first k elements (held is bound through a         *)
(* singleton set so that it is computed once).                              *)
RECURSIVE MinUpTo(_, _)
MinUpTo(positions, k) ==
    IF k = 1 THEN positions[1]
    ELSE CHOOSE r \in {IF KeyLess(positions[k], held) THEN positions[k] ELSE held :
                          held \in {MinUpTo(positions, k - 1)}} : TRUE

MinPosition(positions) == MinUpTo(positions, Len(positions))

(* columns whose water level is raised by the commit *)
RaisedColumns(b) == CeilDiv(b.minx, stepx) .. (FloorDiv(b.maxx, stepx) - 1)

----------------------------------------------------------------------------
Init ==
    /\ geoms \in SeqsUpTo(Shapes, MaxPieces)
    /\ width \in Widths
    /\ stepx \in StepsX
    /\ stepy \in StepsY
    /\ nb_orientations \in Orientations
    /\ result = <<>>
    /\ simplified_result = [cells |-> {}, shadows |-> {}]
    /\ starting_yoffs = [col \in 0 .. (nb_stepx - 1) |-> 0]
    /\ nb_placed = 0
    /\ global_maxy = 0
    /\ possible_positions = <<>>
    /\ best_position = [x |-> 0, yoff |-> 0, maxy |-> 0, geom |-> {}, i |-> 0]
    /\ i = 0
    /\ x = 0
    /\ yoff = 0
    /\ geom_yshifted = {}
    /\ raised = "none"
    /\ pc = "for_geom"

(* for geom in geoms: possible_positions = [] *)
NextGeom ==
    /\ pc = "for_geom"
    /\ nb_placed < Len(geoms)
    /\ possible_positions' = <<>>
    /\ i' = 0
    /\ pc' = "for_i"
    /\ UNCHANGED <<inputs, result, simplified_result, starting_yoffs, nb_placed,
                   global_maxy, best_position, x, yoff, geom_yshifted, raised>>

(* return result *)
Return ==
    /\ pc = "for_geom"
    /\ nb_placed = Len(geoms)
    /\ pc' = "done"
    /\ UNCHANGED <<inputs, result, simplified_result, starting_yoffs, nb_placed,
                   global_maxy, possible_positions, best_position, i, x, yoff,
                   geom_yshifted, raised>>

(* for i in range(nb_orientations): rotate, take the bounds, start the      *)
(* column range                                                             *)
NextOrientation ==
    /\ pc = "for_i"
    /\ i < nb_orientations
    /\ x' = ColumnLo(geom_rotated)
    /\ pc' = "for_x"
    /\ UNCHANGED <<inputs, result, simplified_result, starting_yoffs, nb_placed,
                   global_maxy, possible_positions, best_position, i, yoff,
                   geom_yshifted, raised>>

(* the orientation loop is exhausted *)
OrientationsDone ==
    /\ pc = "for_i"
    /\ i >= nb_orientations
    /\ pc' = "select"
    /\ UNCHANGED <<inputs, result, simplified_result, starting_yoffs, nb_placed,
                   global_maxy, possible_positions, best_position, i, x, yoff,
                   geom_yshifted, raised>>

(* for x in range(...): shift to the column, yoff = starting_yoffs[x],      *)
(* geom_yshifted = geom_xshifted                                            *)
NextColumn ==
    /\ pc = "for_x"
    /\ x < ColumnHi(geom_rotated)
    /\ yoff' = StartYoff(starting_yoffs, x)
    /\ geom_yshifted' = geom_xshifted
    /\ pc' = "while"
    /\ UNCHANGED <<inputs, result, simplified_result, starting_yoffs, nb_placed,
                   global_maxy, possible_positions, best_position, i, x, raised>>

(* the column range is exhausted: next orientation *)
ColumnsDone ==
    /\ pc = "for_x"
    /\ x >= ColumnHi(geom_rotated)
    /\ i' = i + 1
    /\ pc' = "for_i"
    /\ UNCHANGED <<inputs, result, simplified_result, starting_yoffs, nb_placed,
                   global_maxy, possible_positions, best_position, x, yoff,
                   geom_yshifted, raised>>

(* one iteration of the while loop: move the piece up *)
Probe ==
    /\ pc = "while"
    /\ Intersects(simplified_result, geom_yshifted)
    /\ yoff' = NextYoff(yoff)
    /\ geom_yshifted' = Translate(geom_xshifted, 0, yoff')
    /\ UNCHANGED <<inputs, result, simplified_result, starting_yoffs, nb_placed,
                   global_maxy, possible_positions, best_position, i, x, raised, pc>>

(* the while loop exits: possible_positions.append(...)                     *)
(* (the field i is not in the code's dict; it records the orientation the   *)
(* candidate was enumerated in)                                             *)
Record ==
    /\ pc = "while"
    /\ ~Intersects(simplified_result, geom_yshifted)
    /\ LET b == Bounds(geom_rotated)
       IN  possible_positions' = Append(possible_positions,
                [x |-> x, yoff |-> yoff, maxy |-> yoff + b.maxy - b.miny,
                 geom |-> geom_yshifted, i |-> i])
    /\ x' = x + 1
    /\ pc' = "for_x"
    /\ UNCHANGED <<inputs, result, simplified_result, starting_yoffs, nb_placed,
                   global_maxy, best_position, i, yoff, geom_yshifted, raised>>

(* mutant: only the chosen column is updated *)
CommitLevelsChosenOnly(levels, best, b) == [levels EXCEPT ![best.x] = best.yoff]

(* water levels after the commit of best with bounds b *)
CommitLevels(levels, best, b) ==
    LET assigned == [levels EXCEPT ![best.x] = best.yoff]
    IN  [col \in DOMAIN levels |->
            IF col \in RaisedColumns(b) THEN Maximum(assigned[col], b.miny)
            ELSE assigned[col]]

(* mutant: the placed piece itself is not added, only its shadow *)
CommitSimplifiedShadowOnly(simplified, best, b) ==
    [cells   |-> simplified.cells,
     shadows |-> simplified.shadows \cup {[minx |-> b.minx, maxx |-> b.maxx, miny |-> b.miny]}]

(* simplified_result after the commit *)
CommitSimplified(simplified, best, b) ==
    [cells   |-> simplified.cells \cup best.geom,
     shadows |-> simplified.shadows \cup {[minx |-> b.minx, maxx |-> b.maxx, miny |-> b.miny]}]

(* best_position = min(...) and everything up to the end of the loop body *)
Commit ==
    /\ pc = "select"
    /\ possible_positions # <<>>
    /\ LET best == MinPosition(possible_positions)
           b    == Bounds(best.geom)
       IN  /\ best_position' = best
           /\ starting_yoffs' = CommitLevels(starting_yoffs, best, b)
           /\ result' = Append(result, best.geom)
           /\ simplified_result' = CommitSimplified(simplified_result, best, b)
           /\ global_maxy' = Maximum(b.maxy, global_maxy)
    /\ nb_placed' = nb_placed + 1
    /\ pc' = "for_geom"
    /\ UNCHANGED <<inputs, possible_positions, i, x, yoff, geom_yshifted, raised>>

(* min() of an empty list raises ValueError, which nothing catches *)
EmptyMin ==
    /\ pc = "select"
    /\ possible_positions = <<>>
    /\ raised' = "ValueError"
    /\ pc' = "aborted"
    /\ UNCHANGED <<inputs, result, simplified_result, starting_yoffs, nb_placed,
                   global_maxy, possible_positions, best_position, i, x, yoff,
                   geom_yshifted>>

Next ==
    \/ NextGeom
    \/ Return
    \/ NextOrientation
    \/ OrientationsDone
    \/ NextColumn
    \/ ColumnsDone
    \/ Probe
    \/ Record
    \/ Commit
    \/ EmptyMin

Spec == Init /\ [][Next]_vars

(* the loops of tetris_pack run to completion: no step waits on anything *)
FairSpec == Spec /\ WF_vars(Next)

TypeOK ==
    /\ pc \in {"for_geom", "for_i", "for_x", "while", "select", "done", "aborted"}
    /\ nb_placed \in 0 .. Len(geoms)
    /\ Len(result) = nb_placed
    /\ DOMAIN starting_yoffs = 0 .. (nb_stepx - 1)
    /\ (pc \in {"for_x", "while"} => x \in DOMAIN starting_yoffs \/ x >= ColumnHi(geom_rotated))
    /\ (pc = "while" => x \in DOMAIN starting_yoffs)

----------------------------------------------------------------------------
(* Properties *)

Enumerating == pc \in {"for_i", "for_x", "while", "select"}
Committed   == nb_placed > 0 /\ pc \in {"for_geom", "done"}

(* the geometry of a candidate before any vertical move: rotated by its     *)
(* orientation, pivot at its column, bottom edge at 0                       *)
Dropped(k, c) ==
    LET r == Rotate(geoms[k], (360 \div nb_orientations) * c.i)
    IN  Translate(r, c.x * stepx, -Bounds(r).miny)

(* first height of h, h + stepy, h + 2*stepy, ... at which g is free *)
RECURSIVE FirstFree(_, _)
FirstFree(g, h) ==
    IF ~Intersects(simplified_result, Translate(g, 0, h)) THEN h
    ELSE FirstFree(g, h + stepy)

PlacedBefore(q) == UNION {result[p] : p \in 1 .. (q - 1)}

(* C1: any two distinct committed pieces have no cell in common (zero       *)
(* intersection area), and every committed geometry does not intersect the  *)
(* union of the geometries committed before it.                             *)
C1_NoOverlap ==
    /\ \A p, q \in 1 .. Len(result) : p # q => result[p] \cap result[q] = {}
    /\ \A q \in 1 .. Len(result) :
          ~Intersects([cells |-> PlacedBefore(q), shadows |-> {}], result[q])

C1_Witness ==
    /\ Len(result) >= 3
    /\ \E q \in 1 .. Len(result) : Bounds(result[q]).miny > 0

(* C2: a piece without any feasible column is reported as PieceTooWide and  *)
(* the run does not crash.                                                  *)
C2_PieceTooWideReported ==
    /\ raised \in {"none", "PieceTooWide"}
    /\ pc # "aborted"

(* C3: every enumerated candidate, hence every committed placement, has its *)
(* bounding box within [0, width] horizontally.                             *)
C3_Containment ==
    /\ \A k \in 1 .. Len(possible_positions) :
          LET b == Bounds(possible_positions[k].geom)
          IN  0 <= b.minx /\ b.maxx <= width
    /\ \A k \in 1 .. Len(result) :
          LET b == Bounds(result[k])
          IN  0 <= b.minx /\ b.maxx <= width

C3_Witness ==
    /\ pc = "select"
    /\ nb_placed >= 1
    /\ \E k \in 1 .. Len(possible_positions) : Bounds(possible_positions[k].geom).minx = 0
    /\ \E k \in 1 .. Len(possible_positions) :
          Bounds(possible_positions[k].geom).maxx = width - stepx

(* C4: every water level starts at 0 and no step lowers a water level.      *)
C4_Monotonic ==
    /\ \A col \in DOMAIN starting_yoffs : starting_yoffs[col] = 0
    /\ [][\A col \in DOMAIN starting_yoffs :
             starting_yoffs'[col] >= starting_yoffs[col]]_vars

C4_Witness ==
    /\ nb_placed >= 2
    /\ \E col \in DOMAIN starting_yoffs : starting_yoffs[col] > 0
    /\ starting_yoffs[best_position.x] > 0

(* C5: the committed candidate has the least topY; among those the least    *)
(* column; among candidates equal on both it is the first enumerated.       *)
C5_Selection ==
    Committed =>
        /\ \E k \in 1 .. Len(possible_positions) : possible_positions[k] = best_position
        /\ \A k \in 1 .. Len(possible_positions) :
              LET c == possible_positions[k]
              IN  \/ c.maxy > best_position.maxy
                  \/ c.maxy = best_position.maxy /\ c.x > best_position.x
                  \/ c.maxy = best_position.maxy /\ c.x = best_position.x
                       /\ \E j \in 1 .. k : possible_positions[j] = best_position

C5_Witness ==
    /\ Committed
    /\ \E j, k \in 1 .. Len(possible_positions) :
          /\ j < k
          /\ possible_positions[j] = best_position
          /\ possible_positions[k].maxy = best_position.maxy
          /\ possible_positions[k].x = best_position.x
    /\ \E k \in 1 .. Len(possible_positions) :
          /\ possible_positions[k].maxy = best_position.maxy
          /\ possible_positions[k].x > best_position.x
    /\ \E k \in 1 .. Len(possible_positions) :
          /\ possible_positions[k].maxy > best_position.maxy
          /\ possible_positions[k].x < best_position.x

SingleSquare ==
    /\ geoms = <<Square>>
    /\ width = 10
    /\ stepx = 1
    /\ stepy = 1
    /\ nb_orientations = 1
    /\ pc = "done"

(* C6 as stated: the single square is committed at column index 0, resting  *)
(* height 0, bounding box minY = 0 and maxY = 2.                            *)
C6_SquareAtColumn0 ==
    SingleSquare =>
        /\ best_position.x = 0
        /\ best_position.yoff = 0
        /\ Bounds(result[1]).miny = 0
        /\ Bounds(result[1]).maxy = 2

(* C6 amended: the single square is committed at column index 1, the        *)
(* leftmost feasible column, where its bounding box's left edge is at 0;    *)
(* resting height 0, bounding box minY = 0 and maxY = 2.                    *)
C6_SquareAtColumn1 ==
    SingleSquare =>
        /\ best_position.x = 1
        /\ \A k \in 1 .. Len(possible_positions) : possible_positions[k].x >= 1
        /\ Bounds(result[1]).minx = 0
        /\ best_position.yoff = 0
        /\ Bounds(result[1]).miny = 0
        /\ Bounds(result[1]).maxy = 2

C6_Witness == SingleSquare /\ Len(result) = 1 /\ Len(possible_positions) = 8

(* C7 as stated: after a commit, every column spanned by the chosen         *)
(* bounding box has a water level of at least the bounding box's top edge.  *)
C7_RaisedToTop ==
    Committed =>
        \A col \in RaisedColumns(Bounds(best_position.geom)) :
            starting_yoffs[col] >= Bounds(best_position.geom).maxy

(* C7 amended: after a commit, every column lying entirely within the       *)
(* bounding box of a committed geometry has a water level of at least that  *)
(* bounding box's bottom edge.                                              *)
C7_RaisedToBottom ==
    \A k \in 1 .. Len(result) :
        \A col \in RaisedColumns(Bounds(result[k])) :
            starting_yoffs[col] >= Bounds(result[k]).miny

C7_Witness ==
    /\ Committed
    /\ Bounds(best_position.geom).miny > 0
    /\ \E col \in RaisedColumns(Bounds(best_position.geom)) : col # best_position.x

(* C8: the resting height of every candidate is the first height of         *)
(* waterLevel(x), waterLevel(x) + stepy, ... at which the piece, its bottom *)
(* edge at that height, does not intersect the occupancy structure.         *)
C8_FirstFreeHeight ==
    Enumerating =>
        \A k \in 1 .. Len(possible_positions) :
            LET c == possible_positions[k]
            IN  c.yoff = FirstFree(Dropped(nb_placed + 1, c), starting_yoffs[c.x])

(* C9: the recorded geometry of every candidate has its bottom edge at the  *)
(* recorded resting height and its top edge at the recorded topY.           *)
C9_CandidateConsistent ==
    \A k \in 1 .. Len(possible_positions) :
        LET c == possible_positions[k]
        IN  /\ Bounds(c.geom).miny = c.yoff
            /\ Bounds(c.geom).maxy = c.maxy

AllFeasible ==
    \A k \in 1 .. Len(geoms) :
        \E o \in 0 .. (nb_orientations - 1) :
            LET r == Rotate(geoms[k], (360 \div nb_orientations) * o)
            IN  ColumnLo(r) < ColumnHi(r)

(* C10: with stepy > 0, a run over pieces that each have a feasible column  *)
(* eventually reaches the terminal state with all pieces placed.            *)
C10_Terminates ==
    (AllFeasible /\ stepy > 0) => <>(pc = "done" /\ nb_placed = Len(geoms))

C10_Witness ==
    /\ pc = "done"
    /\ nb_placed = Len(geoms)
    /\ nb_placed >= 2
    /\ \E q \in 1 .. Len(result) : Bounds(result[q]).miny > stepy
====
